---- MODULE Spec2Model ----
(***************************************************************************)
(* LocalChain (crates/chain/src/local_chain.rs): a sparse store of         *)
(* checkpoints, height -> block hash, with its reconciliation against an   *)
(* update (determine_changeset), the application of a ChangeSet, and its   *)
(* implementation of ChainOracle::is_block_in_chain.                       *)
(*                                                                         *)
(* A BTreeMap<u32, V> is a function from a finite set of heights to V; its *)
(* iteration order is ascending height.  Option<T> is a sequence of length *)
(* at most one, Result<T, E> a record with a tag.                          *)
(***************************************************************************)
EXTENDS Integers, Sequences, FiniteSets

\* u32::MAX, scaled down: heights are 0..U32_MAX and u32 arithmetic is
\* arithmetic modulo U32_MAX + 1.
U32_MAX == 3

U32 == 0..U32_MAX

\* BlockHash: an opaque identifier of which only equality is used.
BlockHash == {"A", "B"}

None == <<>>
Some(x) == <<x>>
Unwrap(o) == o[1]

Ok(v) == [tag |-> "Ok", val |-> v]
Err(e) == [tag |-> "Err", val |-> e]

BlockId == [height : U32, hash : BlockHash]

\* The values of BTreeMap<u32, V>.
BTreeMaps(V) == UNION {[ks -> V] : ks \in SUBSET U32}

LocalChains == BTreeMaps(BlockHash)
ChangeSet == BTreeMaps({None} \cup {Some(x) : x \in BlockHash})

EmptyMap == [h \in {} |-> None]

\* ---- BTreeMap operations ----

MapGet(m, k) == IF k \in DOMAIN m THEN Some(m[k]) ELSE None

ContainsKey(m, k) == k \in DOMAIN m

MapInsert(m, k, v) == [x \in DOMAIN m \cup {k} |-> IF x = k THEN v ELSE m[x]]

\* Mutant: removes the first entry at or above k instead of the entry at k.
MapRemove_FirstAtOrAbove(m, k) ==
    LET above == {x \in DOMAIN m : x >= k}
    IN  IF above = {} THEN m
        ELSE [x \in DOMAIN m \ {CHOOSE a \in above : \A b \in above : a <= b} |-> m[x]]

MapRemove(m, k) == [x \in DOMAIN m \ {k} |-> m[x]]

Min(S) == CHOOSE x \in S : \A y \in S : x <= y

RECURSIVE SortedSeq(_)
SortedSeq(S) == IF S = {} THEN <<>> ELSE <<Min(S)>> \o SortedSeq(S \ {Min(S)})

\* m.iter(): the entries <<key, value>> in ascending key order.
Iter(m) == LET ks == SortedSeq(DOMAIN m) IN [i \in 1..Len(ks) |-> <<ks[i], m[ks[i]]>>]

Rev(s) == [i \in 1..Len(s) |-> s[Len(s) + 1 - i]]

\* Iterator::last
Last(s) == IF s = <<>> THEN None ELSE Some(s[Len(s)])

\* m.range(lb..): the entries with key >= lb, ascending.
Range(m, lb) == Iter([k \in {x \in DOMAIN m : x >= lb} |-> m[k]])

\* Iterator::next on a fresh iterator
First(s) == IF s = <<>> THEN None ELSE Some(s[1])

\* collect() into a BTreeMap: entries are inserted in iteration order, a later
\* entry with the same key overwriting an earlier one.
RECURSIVE CollectInto(_, _)
CollectInto(m, s) ==
    IF s = <<>> THEN m ELSE CollectInto(MapInsert(m, s[1][1], s[1][2]), Tail(s))

Collect(s) == CollectInto(EmptyMap, s)

\* wrapping u32 addition of one
AddOne(h) == (h + 1) % (U32_MAX + 1)

\* ---- LocalChain ----

\* Mutant: an earlier BlockId of a height wins over a later one.
FromBlocks_FirstWins(bs) ==
    Collect(Rev([i \in 1..Len(bs) |-> <<bs[i].height, bs[i].hash>>]))

\* LocalChain::from_blocks
FromBlocks(bs) == Collect([i \in 1..Len(bs) |-> <<bs[i].height, bs[i].hash>>])

\* LocalChain::tip
Tip(blocks) ==
    LET l == Last(Iter(blocks))
    IN  IF l = None THEN None ELSE Some([height |-> Unwrap(l)[1], hash |-> Unwrap(l)[2]])

\* Mutant: the first key is taken for the tip.
UpdateTip_First(update) == First(SortedSeq(DOMAIN update))

\* update.keys().last().cloned()
UpdateTip(update) == Last(SortedSeq(DOMAIN update))

\* update.iter().rev().find(|(u_height, u_hash)| self.blocks.get(u_height) == Some(u_hash))
RECURSIVE FindAgreement(_, _)
FindAgreement(blocks, s) ==
    IF s = <<>> THEN None
    ELSE IF MapGet(blocks, s[1][1]) = Some(s[1][2]) THEN Some(s[1])
    ELSE FindAgreement(blocks, Tail(s))

\* the latest height where both the update and local chain has the same block hash
AgreementHeight(blocks, update) ==
    LET found == FindAgreement(blocks, Rev(Iter(update)))
    IN  IF found = None THEN None ELSE Some(Unwrap(found)[1])

\* Mutant: the agreement height itself is taken as the lower bound.
InvalidateLb_AtAgreement(agreement_height, update_tip) ==
    IF agreement_height # None /\ Unwrap(agreement_height) = update_tip THEN U32_MAX
    ELSE IF agreement_height # None THEN Unwrap(agreement_height)
    ELSE 0

\* the lower bound of the range to invalidate
InvalidateLb(agreement_height, update_tip) ==
    IF agreement_height # None /\ Unwrap(agreement_height) = update_tip THEN U32_MAX
    ELSE IF agreement_height # None THEN AddOne(Unwrap(agreement_height))
    ELSE 0

\* Whether computing invalidate_lb evaluates height + 1 beyond u32::MAX: the arm
\* Some(height) => height + 1 is taken with height = u32::MAX.
InvalidateLbOverflows(agreement_height, update_tip) ==
    /\ agreement_height # None
    /\ Unwrap(agreement_height) # update_tip
    /\ Unwrap(agreement_height) + 1 > U32_MAX

\* the first block's height to invalidate in the local chain
InvalidateFromHeight(blocks, invalidate_lb) ==
    LET n == First(Range(blocks, invalidate_lb))
    IN  IF n = None THEN None ELSE Some(Unwrap(n)[1])

\* Mutant: once a height to invalidate is found, every store height is staged for removal.
StagedRemovals_WholeStore(blocks, invalidate_from_height) ==
    IF invalidate_from_height = None THEN EmptyMap
    ELSE LET r == Iter(blocks)
         IN  Collect([i \in 1..Len(r) |-> <<r[i][1], None>>])

\* self.blocks.range(first_invalid_height..).map(|(height, _)| (*height, None)).collect()
StagedRemovals(blocks, invalidate_from_height) ==
    IF invalidate_from_height = None THEN EmptyMap
    ELSE LET r == Range(blocks, Unwrap(invalidate_from_height))
         IN  Collect([i \in 1..Len(r) |-> <<r[i][1], None>>])

\* Mutant: every entry of update is inserted, also where the store agrees.
RECURSIVE InsertUpdates_All(_, _, _)
InsertUpdates_All(changeset, blocks, s) ==
    IF s = <<>> THEN changeset
    ELSE InsertUpdates_All(MapInsert(changeset, s[1][1], Some(s[1][2])), blocks, Tail(s))

\* Mutant: only heights the store already has are overwritten.
RECURSIVE InsertUpdates_OnlyOverwrites(_, _, _)
InsertUpdates_OnlyOverwrites(changeset, blocks, s) ==
    IF s = <<>> THEN changeset
    ELSE IF MapGet(blocks, s[1][1]) # None /\ MapGet(blocks, s[1][1]) # Some(s[1][2])
         THEN InsertUpdates_OnlyOverwrites(MapInsert(changeset, s[1][1], Some(s[1][2])),
                                           blocks, Tail(s))
         ELSE InsertUpdates_OnlyOverwrites(changeset, blocks, Tail(s))

\* for (height, update_hash) in update { ... changeset.insert(*height, Some(*update_hash)) }
RECURSIVE InsertUpdates(_, _, _)
InsertUpdates(changeset, blocks, s) ==
    IF s = <<>> THEN changeset
    ELSE LET height == s[1][1]
             update_hash == s[1][2]
             original_hash == MapGet(blocks, height)
         IN  IF Some(update_hash) # original_hash
             THEN InsertUpdates(MapInsert(changeset, height, Some(update_hash)), blocks, Tail(s))
             ELSE InsertUpdates(changeset, blocks, Tail(s))

\* Mutant: the error carries the lower bound instead of the first height to invalidate.
DetermineChangeset_ErrCarriesLb(blocks, update) ==
    LET update_tip == UpdateTip(update)
    IN  IF update_tip = None THEN Ok(EmptyMap)
        ELSE LET agreement_height == AgreementHeight(blocks, update)
                 invalidate_lb == InvalidateLb(agreement_height, Unwrap(update_tip))
                 invalidate_from_height == InvalidateFromHeight(blocks, invalidate_lb)
             IN  IF /\ invalidate_from_height # None
                    /\ ~ContainsKey(update, Unwrap(invalidate_from_height))
                 THEN Err(invalidate_lb)
                 ELSE Ok(InsertUpdates(StagedRemovals(blocks, invalidate_from_height),
                                       blocks, Iter(update)))

\* LocalChain::determine_changeset
DetermineChangeset(blocks, update) ==
    LET update_tip == UpdateTip(update)
    IN  IF update_tip = None THEN Ok(EmptyMap)
        ELSE LET agreement_height == AgreementHeight(blocks, update)
                 invalidate_lb == InvalidateLb(agreement_height, Unwrap(update_tip))
                 invalidate_from_height == InvalidateFromHeight(blocks, invalidate_lb)
             IN  IF /\ invalidate_from_height # None
                    /\ ~ContainsKey(update, Unwrap(invalidate_from_height))
                 THEN Err(Unwrap(invalidate_from_height))
                 ELSE Ok(InsertUpdates(StagedRemovals(blocks, invalidate_from_height),
                                       blocks, Iter(update)))

\* LocalChain::apply_changeset
RECURSIVE ApplyEntries(_, _)
ApplyEntries(blocks, s) ==
    IF s = <<>> THEN blocks
    ELSE LET height == s[1][1]
             blockhash == s[1][2]
         IN  IF blockhash # None
             THEN ApplyEntries(MapInsert(blocks, height, Unwrap(blockhash)), Tail(s))
             ELSE ApplyEntries(MapRemove(blocks, height), Tail(s))

ApplyChangeset(blocks, changeset) == ApplyEntries(blocks, Iter(changeset))

\* Mutant: the staged removals are applied before the connectivity check.
ApplyUpdateBlocks_RemovesBeforeCheck(blocks, update) ==
    LET changeset == DetermineChangeset(blocks, update)
    IN  IF changeset.tag = "Err"
        THEN ApplyChangeset(blocks, StagedRemovals(blocks, Some(changeset.val)))
        ELSE ApplyChangeset(blocks, changeset.val)

\* Mutant: on success the store takes update's entries instead of applying the
\* ChangeSet it returns.
ApplyUpdateBlocks_ExtendsWithUpdate(blocks, update) ==
    LET changeset == DetermineChangeset(blocks, update)
    IN  IF changeset.tag = "Err" THEN blocks
        ELSE [h \in DOMAIN blocks \cup DOMAIN update |->
                 IF h \in DOMAIN update THEN update[h] ELSE blocks[h]]

\* LocalChain::apply_update, the store it leaves
ApplyUpdateBlocks(blocks, update) ==
    LET changeset == DetermineChangeset(blocks, update)
    IN  IF changeset.tag = "Err" THEN blocks
        ELSE ApplyChangeset(blocks, changeset.val)

\* Mutant: the tip is left out of the initial ChangeSet.
InitialChangeset_WithoutTip(blocks) ==
    LET s == Iter(blocks)
    IN  Collect([i \in 1..(Len(s) - 1) |-> <<s[i][1], Some(s[i][2])>>])

\* LocalChain::initial_changeset
InitialChangeset(blocks) ==
    LET s == Iter(blocks)
    IN  Collect([i \in 1..Len(s) |-> <<s[i][1], Some(s[i][2])>>])

\* LocalChain::heights
Heights(blocks) == DOMAIN blocks

\* Mutant: the heights' order is not checked.
IsBlockInChain_NoOrderCheck(blocks, block, static_block) ==
    LET hash == MapGet(blocks, block.height)
        static_hash == MapGet(blocks, static_block.height)
    IN  IF hash # None /\ static_hash # None
        THEN Ok(Some(Unwrap(hash) = block.hash /\ Unwrap(static_hash) = static_block.hash))
        ELSE Ok(None)

\* <LocalChain as ChainOracle>::is_block_in_chain
IsBlockInChain(blocks, block, static_block) ==
    IF block.height > static_block.height THEN Ok(None)
    ELSE LET hash == MapGet(blocks, block.height)
             static_hash == MapGet(blocks, static_block.height)
         IN  IF hash # None /\ static_hash # None
             THEN Ok(Some(Unwrap(hash) = block.hash /\ Unwrap(static_hash) = static_block.hash))
             ELSE Ok(None)

\* ---- the state ----

VARIABLES
    blocks,     \* LocalChain.blocks of the store
    op,         \* the call that last returned, "idle" once its result is consumed
    arg,        \* that call's argument
    pre,        \* the store's contents when that call was made
    result,     \* what that call returned
    replica,    \* LocalChain.blocks of a second store that replays persisted ChangeSets
    seeded,     \* whether the replica has applied the initial ChangeSet
    interleaved, \* whether another caller's ChangeSet was applied since the outstanding determine_changeset
    reported    \* the heights the earlier failures of the current retry sequence carried

vars == <<blocks, op, arg, pre, result, replica, seeded, interleaved, reported>>

NoValue == <<>>

\* A store is built from any BTreeMap (From<BTreeMap<u32, BlockHash>>); the
\* replica is LocalChain::default().
Init ==
    /\ blocks \in LocalChains
    /\ op = "idle"
    /\ arg = NoValue
    /\ pre = NoValue
    /\ result = NoValue
    /\ replica = EmptyMap
    /\ seeded = FALSE
    /\ interleaved = FALSE
    /\ reported = {}

Idle == op = "idle"

DetermineChangesetCall(update) ==
    /\ Idle
    /\ op' = "determine_changeset"
    /\ arg' = update
    /\ pre' = blocks
    /\ result' = DetermineChangeset(blocks, update)
    /\ UNCHANGED <<blocks, replica, seeded, interleaved, reported>>

ApplyChangesetCall(changeset) ==
    /\ Idle
    /\ op' = "apply_changeset"
    /\ arg' = changeset
    /\ pre' = blocks
    /\ blocks' = ApplyChangeset(blocks, changeset)
    /\ result' = NoValue
    /\ UNCHANGED <<replica, seeded, interleaved, reported>>

\* The caller applies the ChangeSet it has just applied a second time.
ReapplyChangeset ==
    /\ op = "apply_changeset"
    /\ op' = "reapply_changeset"
    /\ pre' = blocks
    /\ blocks' = ApplyChangeset(blocks, arg)
    /\ UNCHANGED <<arg, result, replica, seeded, interleaved, reported>>

ApplyUpdate(update) ==
    /\ Idle
    /\ op' = "apply_update"
    /\ arg' = update
    /\ pre' = blocks
    /\ blocks' = ApplyUpdateBlocks(blocks, update)
    /\ result' = DetermineChangeset(blocks, update)
    /\ UNCHANGED <<replica, seeded, interleaved, reported>>

InitialChangesetCall ==
    /\ Idle
    /\ op' = "initial_changeset"
    /\ arg' = NoValue
    /\ pre' = blocks
    /\ result' = InitialChangeset(blocks)
    /\ UNCHANGED <<blocks, replica, seeded, interleaved, reported>>

IsBlockInChainCall(block, static_block) ==
    /\ Idle
    /\ op' = "is_block_in_chain"
    /\ arg' = <<block, static_block>>
    /\ pre' = blocks
    /\ result' = IsBlockInChain(blocks, block, static_block)
    /\ UNCHANGED <<blocks, replica, seeded, interleaved, reported>>

\* The caller is done with the returned value; the store keeps its contents.
Return ==
    /\ ~Idle
    /\ op' = "idle"
    /\ arg' = NoValue
    /\ pre' = NoValue
    /\ result' = NoValue
    /\ interleaved' = FALSE
    /\ reported' = {}
    /\ UNCHANGED <<blocks, replica, seeded>>

Next ==
    \/ Idle /\ \E update \in LocalChains : DetermineChangesetCall(update)
    \/ Idle /\ \E changeset \in ChangeSet : ApplyChangesetCall(changeset)
    \/ ReapplyChangeset
    \/ Idle /\ \E update \in LocalChains : ApplyUpdate(update)
    \/ InitialChangesetCall
    \/ Idle /\ \E block \in BlockId, static_block \in BlockId : IsBlockInChainCall(block, static_block)
    \/ Return

Spec == Init /\ [][Next]_vars

\* ---- replaying persisted ChangeSets into a second store ----

\* The replica, still empty, applies the initial ChangeSet the store returned.
Seed ==
    /\ op = "initial_changeset"
    /\ ~seeded
    /\ op' = "seed"
    /\ arg' = result
    /\ replica' = ApplyChangeset(replica, result)
    /\ seeded' = TRUE
    /\ UNCHANGED <<blocks, pre, result, interleaved, reported>>

\* The replica applies the ChangeSet a successful apply_update returned.
Replay ==
    /\ op = "apply_update"
    /\ result.tag = "Ok"
    /\ seeded
    /\ op' = "replay"
    /\ replica' = ApplyChangeset(replica, result.val)
    /\ UNCHANGED <<blocks, arg, pre, result, seeded, interleaved, reported>>

\* Nothing to replay: the call failed, or returned no ChangeSet of apply_update.
Skip ==
    /\ ~(op = "apply_update" /\ result.tag = "Ok" /\ seeded)
    /\ Return

NextReplay ==
    \/ InitialChangesetCall
    \/ Seed
    \/ Idle /\ \E update \in LocalChains : ApplyUpdate(update)
    \/ Replay
    \/ Skip

SpecReplay == Init /\ [][NextReplay]_vars

\* ---- two callers of determine_changeset / apply_changeset on one store ----

\* The caller applies the ChangeSet its determine_changeset returned.
ApplyDetermined ==
    /\ op = "determine_changeset"
    /\ result.tag = "Ok"
    /\ op' = "apply_determined"
    /\ blocks' = ApplyChangeset(blocks, result.val)
    /\ UNCHANGED <<arg, pre, result, replica, seeded, interleaved, reported>>

\* A second caller's apply_update succeeds, and so applies its ChangeSet, between
\* the first caller's determine_changeset and its apply_changeset.
ApplyUpdateBetween(update) ==
    /\ op = "determine_changeset"
    /\ result.tag = "Ok"
    /\ ~interleaved
    /\ DetermineChangeset(blocks, update).tag = "Ok"
    /\ blocks' = ApplyUpdateBlocks(blocks, update)
    /\ interleaved' = TRUE
    /\ UNCHANGED <<op, arg, pre, result, replica, seeded, reported>>

\* Each determine-then-apply pair excludes the other caller: apply_update runs
\* only while no determine_changeset is outstanding.
NextExclusive ==
    \/ Idle /\ \E update \in LocalChains : DetermineChangesetCall(update)
    \/ ApplyDetermined
    \/ Idle /\ \E update \in LocalChains : ApplyUpdate(update)
    \/ Return

SpecExclusive == Init /\ [][NextExclusive]_vars

\* No exclusion: the second caller may run inside the first caller's pair.
NextInterleaved ==
    \/ Idle /\ \E update \in LocalChains : DetermineChangesetCall(update)
    \/ op = "determine_changeset" /\ \E update \in LocalChains : ApplyUpdateBetween(update)
    \/ ApplyDetermined
    \/ Idle /\ \E update \in LocalChains : ApplyUpdate(update)
    \/ Return

SpecInterleaved == Init /\ [][NextInterleaved]_vars

\* ---- a caller that retries determine_changeset with a wider update ----

\* The caller adds a checkpoint at the height the error carried, with any
\* identity, and calls determine_changeset again on the same store.
Retry(hash) ==
    /\ op = "determine_changeset"
    /\ result.tag = "Err"
    /\ reported' = reported \cup {result.val}
    /\ arg' = MapInsert(arg, result.val, hash)
    /\ result' = DetermineChangeset(blocks, MapInsert(arg, result.val, hash))
    /\ UNCHANGED <<blocks, op, pre, replica, seeded, interleaved>>

\* The call returned a ChangeSet: the retry sequence is over.
Succeed ==
    /\ op = "determine_changeset"
    /\ result.tag = "Ok"
    /\ Return

NextRetry ==
    \/ Idle /\ \E update \in LocalChains : DetermineChangesetCall(update)
    \/ \E hash \in BlockHash : Retry(hash)
    \/ Succeed

\* What a Retry step does to reported, the variable every Retry step changes.
CallerRetries ==
    /\ op = "determine_changeset"
    /\ result.tag = "Err"
    /\ reported' = reported \cup {result.val}

\* The caller reacts to every connectivity error: a retry that stays possible is
\* eventually made.
SpecRetry == Init /\ [][NextRetry]_vars /\ WF_reported(CallerRetries)

\* ---- construction from a collection of BlockIds ----

\* The longest collection of BlockIds given to from_blocks.
MaxBlocks == 3

\* The collections of BlockIds, in iteration order.
BlockIdSeqs == UNION {[1..n -> BlockId] : n \in 0..MaxBlocks}

\* No store has been constructed yet.
InitFromBlocks == Init /\ blocks = EmptyMap

FromBlocksCall(bs) ==
    /\ Idle
    /\ op' = "from_blocks"
    /\ arg' = bs
    /\ pre' = blocks
    /\ blocks' = FromBlocks(bs)
    /\ result' = NoValue
    /\ UNCHANGED <<replica, seeded, interleaved, reported>>

NextFromBlocks == Idle /\ \E bs \in BlockIdSeqs : FromBlocksCall(bs)

SpecFromBlocks == InitFromBlocks /\ [][NextFromBlocks]_vars

\* ---- properties ----

Max(S) == CHOOSE x \in S : \A y \in S : x >= y

\* The heights at which two stores hold the same identity.
Agreements(store, update) == {h \in DOMAIN store \cap DOMAIN update : store[h] = update[h]}

\* The store heights at or above a bound.
AtOrAbove(store, lb) == {h \in DOMAIN store : h >= lb}

\* C1: if apply_update(update) succeeds, the store afterwards holds exactly
\* update's identity at every height present in update.
C1_StoreConsistentWithUpdate ==
    (op = "apply_update" /\ result.tag = "Ok") =>
        \A h \in DOMAIN arg : h \in DOMAIN blocks /\ blocks[h] = arg[h]

\* C2 as stated: determine_changeset fails iff the store has an entry at or above
\* agreement height + 1 (0 without agreement) and update has no entry at the
\* smallest such store height; the error carries that height.
C2_LbAsStated(store, update) ==
    IF Agreements(store, update) = {} THEN 0 ELSE Max(Agreements(store, update)) + 1

C2_FailsIffGapAsStated ==
    op = "determine_changeset" =>
        LET above == AtOrAbove(pre, C2_LbAsStated(pre, arg))
        IN  IF above # {} /\ Min(above) \notin DOMAIN arg
            THEN result = Err(Min(above))
            ELSE result.tag = "Ok"

\* C2, amended: an empty update never fails; for a non-empty update the lower
\* bound is 0 without agreement, u32::MAX when the agreement height is update's
\* tip, and agreement height + 1 otherwise; determine_changeset fails iff the
\* store has an entry at or above that bound and update has no entry at the
\* smallest such store height, and the error carries exactly that height, which
\* is in the store and not in update.
C2_Lb(store, update) ==
    IF Agreements(store, update) = {} THEN 0
    ELSE IF Max(Agreements(store, update)) = Max(DOMAIN update) THEN U32_MAX
    ELSE Max(Agreements(store, update)) + 1

C2_FailsIffGap ==
    op = "determine_changeset" =>
        IF arg = EmptyMap THEN result.tag = "Ok"
        ELSE LET above == AtOrAbove(pre, C2_Lb(pre, arg))
             IN  IF above # {} /\ Min(above) \notin DOMAIN arg
                 THEN /\ result = Err(Min(above))
                      /\ result.val \in DOMAIN pre
                      /\ result.val \notin DOMAIN arg
                 ELSE result.tag = "Ok"

\* A failure above an agreement height that is below update's tip.
C2_Witness ==
    /\ op = "determine_changeset"
    /\ result.tag = "Err"
    /\ Agreements(pre, arg) # {}
    /\ result.val > Max(Agreements(pre, arg))
    /\ result.val < Max(DOMAIN arg)

\* C3: when apply_update returns the connectivity error the store's contents
\* are exactly what they were before the call.
C3_FailedUpdateLeavesStore ==
    (op = "apply_update" /\ result.tag = "Err") => blocks = pre

C3_Witness ==
    /\ op = "apply_update"
    /\ result.tag = "Err"
    /\ Cardinality(DOMAIN pre) >= 2
    /\ \E h \in DOMAIN arg : h \in DOMAIN pre /\ pre[h] # arg[h]

\* C4: a ChangeSet returned by determine_changeset has no entry, present or
\* absent-marker, at a height where store and update hold the same identity.
C4_Minimality ==
    (op = "determine_changeset" /\ result.tag = "Ok") =>
        DOMAIN result.val \cap Agreements(pre, arg) = {}

\* C5: determine_changeset with an update equal to the store returns an empty
\* ChangeSet, and apply_update with that update leaves the store unchanged.
C5_SelfUpdateIsNoOp ==
    /\ (op = "determine_changeset" /\ arg = pre) => result = Ok(EmptyMap)
    /\ (op = "apply_update" /\ arg = pre) => (result = Ok(EmptyMap) /\ blocks = pre)

\* C6: when update's tip matches the store's identity at that height,
\* determine_changeset returns no error and no absent-marker, whatever the store
\* holds above update's tip.
C6_MatchingTipInvalidatesNothing ==
    (/\ op = "determine_changeset"
     /\ arg # EmptyMap
     /\ Max(DOMAIN arg) \in Agreements(pre, arg)) =>
        /\ result.tag = "Ok"
        /\ \A h \in DOMAIN result.val : result.val[h] # None

\* C7: applying a store's initial_changeset() to an empty store yields a store
\* equal to it; the initial ChangeSet has one present entry per store height and
\* no absent-marker.
C7_InitialChangesetRoundTrip ==
    op = "seed" =>
        /\ replica = blocks
        /\ DOMAIN arg = DOMAIN blocks
        /\ \A h \in DOMAIN arg : arg[h] = Some(blocks[h])

C7_Witness ==
    /\ op = "seed"
    /\ Cardinality(DOMAIN blocks) >= 3
    /\ replica = blocks

\* C8: applying a ChangeSet a second time to the store that results from
\* applying it once leaves that store unchanged.
C8_ApplyChangesetIdempotent ==
    op = "reapply_changeset" => blocks = pre

\* The ChangeSet mixes present entries and absent-markers and changed the store.
C8_Witness ==
    /\ op = "reapply_changeset"
    /\ \E h \in DOMAIN arg : arg[h] = None /\ h \notin DOMAIN blocks
    /\ \E h \in DOMAIN arg : arg[h] # None /\ h \in DOMAIN blocks
    /\ blocks # EmptyMap

\* C9: is_block_in_chain never errors; it is indeterminate when block is above
\* static_block or the store lacks either height, otherwise definitely-yes
\* exactly when both stored identities equal the queried ones and definitely-no
\* when either differs.
C9_IsBlockInChain ==
    op = "is_block_in_chain" =>
        LET block == arg[1]
            static_block == arg[2]
            known == {block.height, static_block.height} \subseteq DOMAIN pre
        IN  /\ result.tag = "Ok"
            /\ block.height > static_block.height => result.val = None
            /\ (block.height <= static_block.height /\ ~known) => result.val = None
            /\ (block.height <= static_block.height /\ known) =>
                  /\ result.val \in {Some(TRUE), Some(FALSE)}
                  /\ result.val = Some(TRUE) <=>
                        /\ pre[block.height] = block.hash
                        /\ pre[static_block.height] = static_block.hash
                  /\ result.val = Some(FALSE) <=>
                        \/ pre[block.height] # block.hash
                        \/ pre[static_block.height] # static_block.hash

\* Definitely-no because only the static block's identity differs.
C9_Witness ==
    /\ op = "is_block_in_chain"
    /\ arg[1].height < arg[2].height
    /\ {arg[1].height, arg[2].height} \subseteq DOMAIN pre
    /\ pre[arg[1].height] = arg[1].hash
    /\ pre[arg[2].height] # arg[2].hash
    /\ result = Ok(Some(FALSE))

\* C10: a replica that starts empty, applies the store's initial_changeset() and
\* then every ChangeSet returned by a successful apply_update, skipping failed
\* calls, equals the store whenever no returned ChangeSet is waiting to be
\* replayed.
C10_ReplicaEqualsStore ==
    (seeded /\ ~(op = "apply_update" /\ result.tag = "Ok")) => replica = blocks

\* The replica has replayed a ChangeSet that removes one height and sets another.
C10_Witness ==
    /\ op = "replay"
    /\ replica = blocks
    /\ \E h \in DOMAIN result.val : result.val[h] = None
    /\ \E h \in DOMAIN result.val : result.val[h] # None

\* The store holds every entry of the update the applied ChangeSet was determined for.
HoldsUpdate(store, update) ==
    \A h \in DOMAIN update : h \in DOMAIN store /\ store[h] = update[h]

\* C11, the exclusive half: when each determine-then-apply pair runs atomically,
\* no state is reachable in which a caller's ChangeSet has been applied and the
\* store does not hold every entry of that caller's update.
C11_ExclusivePairReachesUpdate ==
    op = "apply_determined" => HoldsUpdate(blocks, arg)

\* C11, the interleaved half, negated: once the first caller's ChangeSet has been
\* applied after a second caller's, the store holds every entry of the first
\* caller's update.  SpecInterleaved violates it, also away from the maximum
\* height: the state the claim describes is reachable without exclusion.
C11_InterleavedPairReachesUpdate ==
    (op = "apply_determined" /\ interleaved /\ U32_MAX \notin DOMAIN pre \cup DOMAIN arg)
        => HoldsUpdate(blocks, arg)

\* C11, the exclusive half away from the maximum height.
C11_ExclusiveBelowMax ==
    (op = "apply_determined" /\ U32_MAX \notin DOMAIN pre) => HoldsUpdate(blocks, arg)

\* update restates the store's tip and otherwise only has entries, at least one,
\* above the store's tip.
PureExtension(store, update) ==
    /\ store # EmptyMap
    /\ LET t == Max(DOMAIN store)
       IN  /\ t \in DOMAIN update
           /\ update[t] = store[t]
           /\ DOMAIN update \ {t} # {}
           /\ \A h \in DOMAIN update \ {t} : h > t

\* update's entries above the store's tip, as present entries.
ExtensionEntries(store, update) ==
    [h \in {x \in DOMAIN update : x > Max(DOMAIN store)} |-> Some(update[h])]

\* C12: for a pure extension determine_changeset succeeds with exactly update's
\* entries above the store's tip as present entries, and after apply_update the
\* store is the old store plus those entries.
C12_PureExtension ==
    /\ (op = "determine_changeset" /\ PureExtension(pre, arg)) =>
          result = Ok(ExtensionEntries(pre, arg))
    /\ (op = "apply_update" /\ PureExtension(pre, arg)) =>
          /\ result = Ok(ExtensionEntries(pre, arg))
          /\ blocks = [h \in DOMAIN pre \cup DOMAIN arg |->
                          IF h \in DOMAIN pre THEN pre[h] ELSE arg[h]]

\* A store of two entries extended by two entries.
C12_Witness ==
    /\ op = "apply_update"
    /\ PureExtension(pre, arg)
    /\ Cardinality(DOMAIN pre) = 2
    /\ Cardinality(DOMAIN arg) = 3
    /\ Cardinality(DOMAIN blocks) = 4

\* The entries of a map at heights >= f.
Suffix(m, f) == [h \in {x \in DOMAIN m : x >= f} |-> m[h]]

\* The store heights at or above the invalidation lower bound determine_changeset
\* computes for a non-empty update.
InvalidationCandidates(store, update) == AtOrAbove(store, C2_Lb(store, update))

\* C13: whenever determine_changeset succeeds and a first-invalidation height f
\* was found, after applying the ChangeSet the store's entries at heights >= f
\* are exactly update's entries at heights >= f.
C13_ReorgSuffixReplaced ==
    (/\ op = "apply_update"
     /\ result.tag = "Ok"
     /\ arg # EmptyMap
     /\ InvalidationCandidates(pre, arg) # {}) =>
        LET f == Min(InvalidationCandidates(pre, arg))
        IN  Suffix(blocks, f) = Suffix(arg, f)

\* C13 where the agreement height is not update's tip, so that the lower bound
\* is not the sentinel.
C13_SuffixReplacedBelowSentinel ==
    (/\ op = "apply_update"
     /\ result.tag = "Ok"
     /\ arg # EmptyMap
     /\ Max(DOMAIN arg) \notin Agreements(pre, arg)
     /\ InvalidationCandidates(pre, arg) # {}) =>
        LET f == Min(InvalidationCandidates(pre, arg))
        IN  Suffix(blocks, f) = Suffix(arg, f)

\* C14: a successful apply_update leaves unchanged every store entry whose height
\* is absent from update and below the first-invalidation height (every store
\* entry absent from update when there is no such height); an empty update
\* changes nothing.
C14_FrameOfApplyUpdate ==
    (op = "apply_update" /\ result.tag = "Ok") =>
        /\ arg = EmptyMap => blocks = pre
        /\ arg # EmptyMap =>
              \A h \in DOMAIN pre \ DOMAIN arg :
                  (\/ InvalidationCandidates(pre, arg) = {}
                   \/ h < Min(InvalidationCandidates(pre, arg))) =>
                      h \in DOMAIN blocks /\ blocks[h] = pre[h]

\* A reorg that removes an entry update does not restate and keeps an entry
\* below the first-invalidation height that update does not mention.
C14_Witness ==
    /\ op = "apply_update"
    /\ result.tag = "Ok"
    /\ arg # EmptyMap
    /\ InvalidationCandidates(pre, arg) # {}
    /\ \E h \in DOMAIN pre \ DOMAIN arg :
          h < Min(InvalidationCandidates(pre, arg)) /\ h \in DOMAIN blocks
    /\ \E h \in DOMAIN pre \ DOMAIN arg : h \notin DOMAIN blocks

\* The outstanding determine_changeset failed / returned a ChangeSet.
RetryFailed == op = "determine_changeset" /\ result.tag = "Err"

RetrySucceeded == op = "determine_changeset" /\ result.tag = "Ok"

\* The number of failures of the current retry sequence.
Failures == Cardinality(reported) + (IF RetryFailed THEN 1 ELSE 0)

\* C15: against an unchanging store, a caller that answers every connectivity
\* error by adding a checkpoint at the carried height and calling again is never
\* told the same height twice, fails at most as often as the store has entries,
\* and eventually gets a ChangeSet.
C15_RetryTerminates ==
    /\ [](RetryFailed => result.val \notin reported)
    /\ [](Failures <= Cardinality(DOMAIN blocks))
    /\ [](op = "determine_changeset" => blocks = pre)
    /\ RetryFailed ~> RetrySucceeded

\* Success after as many failures as the store has entries, three of them.
C15_Witness ==
    /\ RetrySucceeded
    /\ Cardinality(reported) = 3
    /\ Cardinality(DOMAIN blocks) = 3

\* C16: determine_changeset evaluates agreement height + 1 only with an
\* agreement height below u32::MAX, so the u32 addition never overflows.
C16_NoOverflow ==
    (op \in {"determine_changeset", "apply_update"} /\ arg # EmptyMap) =>
        ~InvalidateLbOverflows(AgreementHeight(pre, arg), Unwrap(UpdateTip(arg)))

\* The addition is evaluated at its largest operand: the agreement height is
\* u32::MAX - 1 and update's tip is u32::MAX.
C16_Witness ==
    /\ op = "determine_changeset"
    /\ arg # EmptyMap
    /\ AgreementHeight(pre, arg) = Some(U32_MAX - 1)
    /\ UpdateTip(arg) = Some(U32_MAX)
    /\ InvalidateLb(AgreementHeight(pre, arg), U32_MAX) = U32_MAX

\* C17: against an empty store determine_changeset never fails and returns
\* exactly update's entries as present entries, which is
\* update.initial_changeset(); apply_update then makes the store equal to update.
C17_EmptyStoreTakesUpdate ==
    /\ (op = "determine_changeset" /\ pre = EmptyMap) =>
          /\ result = Ok([h \in DOMAIN arg |-> Some(arg[h])])
          /\ result = Ok(InitialChangeset(arg))
    /\ (op = "apply_update" /\ pre = EmptyMap) =>
          /\ result = Ok([h \in DOMAIN arg |-> Some(arg[h])])
          /\ blocks = arg

C17_Witness ==
    /\ op = "apply_update"
    /\ pre = EmptyMap
    /\ Cardinality(DOMAIN arg) >= 3
    /\ blocks = arg

\* C18: from_blocks builds a store whose heights are exactly the heights of the
\* input, holding at each the identity of the last BlockId of that height in
\* iteration order.
C18_FromBlocksLastWins ==
    op = "from_blocks" =>
        /\ DOMAIN blocks = {arg[i].height : i \in 1..Len(arg)}
        /\ \A h \in DOMAIN blocks :
              blocks[h] = arg[Max({i \in 1..Len(arg) : arg[i].height = h})].hash

\* Two BlockIds of one height with different identities, another height between.
C18_Witness ==
    /\ op = "from_blocks"
    /\ Len(arg) = 3
    /\ arg[1].height = arg[3].height
    /\ arg[1].hash # arg[3].hash
    /\ arg[2].height # arg[1].height
    /\ blocks[arg[1].height] = arg[3].hash

====
